---- MODULE Spec2Model ----
(***************************************************************************)
(* Model of backend/main.py of the stock strategy backtester: the request  *)
(* path download_stock_data -> run_backtest (cerebro.run with SMAStrategy) *)
(* -> metrics.  The bar loop follows backtrader's run order: for each bar  *)
(* the broker first executes the order created on the previous bar (at the *)
(* bar's open), the strategy is notified of trades, and then the           *)
(* strategy's prenext (indicator not yet filled) or next is called.        *)
(*                                                                         *)
(* Money is counted in units of 1/commission_den of a currency unit, so    *)
(* that the 0.001 commission of a whole-number price is a whole number.    *)
(***************************************************************************)
EXTENDS Integers, Sequences, FiniteSets, TLC

\* ------------------------------------------------------------------ bounds
MaxBars == 2
MaxPrice == 2
MaxDay == 2
MaxW == 2

\* ------------------------------------------------------- program constants
initial_cash == 10000
commission_den == 1000
stake == 1
HTTP_400 == 400
HTTP_500 == 500

Cash0 == initial_cash * commission_den

\* --------------------------------------------------------------- text
\* A text is a sequence of one-character strings.
UpperChars ==
  <<"A","B","C","D","E","F","G","H","I","J","K","L","M",
    "N","O","P","Q","R","S","T","U","V","W","X","Y","Z">>
LowerChars ==
  <<"a","b","c","d","e","f","g","h","i","j","k","l","m",
    "n","o","p","q","r","s","t","u","v","w","x","y","z">>

LowerChar(c) ==
  IF \E k \in 1..26 : UpperChars[k] = c
    THEN LowerChars[CHOOSE k \in 1..26 : UpperChars[k] = c]
    ELSE c

\* str.lower()
lower(s) == [k \in 1..Len(s) |-> LowerChar(s[k])]

\* pat in s
Contains(s, pat) ==
  \E k \in 0..(Len(s) - Len(pat)) :
     \A j \in 1..Len(pat) : s[k + j] = pat[j]

TxtGT == <<"p","r","i","c","e"," ",">"," ","s","m","a">>
TxtLT == <<"p","r","i","c","e"," ","<"," ","s","m","a">>
TxtGE == <<"p","r","i","c","e"," ",">","="," ","s","m","a">>
TxtLE == <<"p","r","i","c","e"," ","<","="," ","s","m","a">>

\* variant: the condition text is matched as written, without lower()
evaluate_condition_cased(if_condition, price, sma_sum, sma_n) ==
  LET condition == if_condition IN
    IF Contains(condition, TxtGT) THEN price * sma_n > sma_sum
    ELSE IF Contains(condition, TxtLT) THEN price * sma_n < sma_sum
    ELSE IF Contains(condition, TxtGE) THEN price * sma_n >= sma_sum
    ELSE IF Contains(condition, TxtLE) THEN price * sma_n <= sma_sum
    ELSE price * sma_n > sma_sum

\* SMAStrategy._evaluate_condition; the moving average is the rational
\* sma_sum / sma_n, so price > sma is price * sma_n > sma_sum.
evaluate_condition(if_condition, price, sma_sum, sma_n) ==
  LET condition == lower(if_condition) IN
    IF Contains(condition, TxtGT) THEN price * sma_n > sma_sum
    ELSE IF Contains(condition, TxtLT) THEN price * sma_n < sma_sum
    ELSE IF Contains(condition, TxtGE) THEN price * sma_n >= sma_sum
    ELSE IF Contains(condition, TxtLE) THEN price * sma_n <= sma_sum
    ELSE price * sma_n > sma_sum

\* ------------------------------------------------------------ inputs
Prices == 1..MaxPrice
Windows == 1..MaxW
Actions == {"buy", "sell", "hold"}

RunConditions == {TxtGT, TxtLT, TxtGE, TxtLE}

Rules ==
  [if_condition : RunConditions, then_action : Actions, else_action : Actions]

Bar(d, o, c) == [date |-> d, open |-> o, close |-> c]

\* A bar opens at the close it ends on, or at a gap from it.
GapPrice(c) == (c % MaxPrice) + 1
BarShapes == Prices \X {"flat", "gap"}
ShapedBar(d, sh) ==
  Bar(d, IF sh[2] = "flat" THEN sh[1] ELSE GapPrice(sh[1]), sh[1])

\* chronological series of n bars, dated 1..n
SeriesOfLen(n) ==
  { [k \in 1..n |-> ShapedBar(k, f[k])] : f \in [1..n -> BarShapes] }

FlatSeries(closes) ==
  [k \in 1..Len(closes) |-> Bar(k, closes[k], closes[k])]

\* the scenario series of closes 10, 11, 12, 9, 8, 13
ScenarioCloses == <<10, 11, 12, 9, 8, 13>>
ScenarioSeries == FlatSeries(ScenarioCloses)

\* closes crossing their two-bar average on every bar
AlternatingCloses == <<1, 2, 1, 2, 1, 2>>
AlternatingSeries == FlatSeries(AlternatingCloses)

\* a price that never changes, high enough for its commission to show in
\* the rounded results
ConstantCloses == <<1000, 1000, 1000, 1000>>
ConstantSeries == FlatSeries(ConstantCloses)

\* a rise sold higher, then a rise sold at its entry price
BreakEvenCloses == <<1, 2, 1, 3, 2, 2>>
BreakEvenSeries == FlatSeries(BreakEvenCloses)

\* bars that open away from their close
GapSeries == <<Bar(1, 3, 4), Bar(2, 5, 3), Bar(3, 2, 4), Bar(4, 6, 5)>>

ValidSeries ==
  (UNION { SeriesOfLen(n) : n \in 1..MaxBars })
    \cup {ScenarioSeries, AlternatingSeries, ConstantSeries, GapSeries,
          BreakEvenSeries}

VARIABLES
  data,          \* the DataFrame handed to run_backtest: sequence of bars
  sma_period,    \* request.sma_period
  rule,          \* request.rule
  pc,            \* position of the request in the handler
  bar,           \* number of bars the run has advanced to (0 before the loop)
  cash,          \* broker cash
  position,      \* broker position: [size, price]
  order,         \* the order created by the strategy and not yet executed
  trades,        \* strategy.trades
  equity_curve,  \* strategy.equity_curve
  action,        \* the action chosen by the last next() ("none": next not called)
  condition_met, \* the condition value of the last next()
  result,        \* the dictionary returned by run_backtest, or NoResult
  http_status,   \* status of the error raised to the caller (0: none)
  http_detail,   \* detail of the error raised to the caller
  endpoint,      \* the route of the request
  start_date,    \* request.start_date, parsed (a day number)
  end_date,      \* request.end_date, parsed (a day number)
  sma,           \* the lines of self.sma, one value per bar of the feed
  saved          \* number of BacktestRun rows saved for the request

vars == <<data, sma_period, rule, pc, bar, cash, position, order, trades,
          equity_curve, action, condition_met, result, http_status,
          http_detail, endpoint, start_date, end_date, sma, saved>>

\* what the handler received and never assigns
received == <<endpoint, start_date, end_date>>

\* the two backtest routes; only "/backtest" saves its run
Endpoints == {"/backtest", "/backtest/test"}

\* texts of the errors of the handlers
StartDateMessage == "Start date must be before end date"
ErrorDownloading == "Error downloading data: No data found for ticker"
InternalServerError == "Internal server error: "

NoOrder == [kind |-> "none", created_price |-> 0]
Flat == [size |-> 0, price |-> 0, date |-> 0]
NoResult == [kind |-> "none"]

InitRun ==
  /\ pc = "request"
  /\ bar = 0
  /\ cash = 0
  /\ position = Flat
  /\ order = NoOrder
  /\ trades = <<>>
  /\ equity_curve = <<>>
  /\ action = "none"
  /\ condition_met = FALSE
  /\ result = NoResult
  /\ http_status = 0
  /\ http_detail = <<>>
  /\ sma = <<>>
  /\ saved = 0

\* a request on either backtest route whose dates are in order
InitDates ==
  /\ endpoint \in Endpoints
  /\ start_date = 1
  /\ end_date = MaxDay

Init ==
  /\ InitDates
  /\ data \in ValidSeries
  /\ sma_period \in Windows
  /\ rule \in Rules
  /\ InitRun

\* ------------------------------------------------------------ helpers
RECURSIVE SumCloses(_, _, _)
\* sum of the closes of bars lo..hi
SumCloses(d, lo, hi) ==
  IF lo > hi THEN 0 ELSE d[hi].close + SumCloses(d, lo, hi - 1)

\* variant: the window of the average starts one bar late
sma_sum_late(d, i, w) == SumCloses(d, i - w + 2, i)

\* the numerator of self.sma[0] at bar i (the denominator is the period)
sma_sum(d, i, w) == SumCloses(d, i - w + 1, i)

\* the value of an indicator line on a bar the window does not cover yet
NaN == "nan"

\* the lines of the SimpleMovingAverage over the preloaded feed: unavailable
\* before bar w, then the sum of the window over the period
once(d, w) ==
  [i \in 1..Len(d) |-> IF i < w THEN NaN ELSE <<sma_sum(d, i, w), w>>]

\* broker.getvalue(): cash plus the position marked at the current close
getvalue(c, pos, close) == c + pos.size * close * commission_den

\* variant: executions are free of commission
getcommission_free(s, p) == 0

\* commission of an execution of size s at price p (money units)
getcommission(s, p) == s * p

\* round(n / d) to the nearest integer, ties to the even one
RoundDiv(n, d) ==
  LET q == n \div d
      r == n % d
  IN  IF 2 * r < d THEN q
      ELSE IF 2 * r > d THEN q + 1
      ELSE IF q % 2 = 0 THEN q ELSE q + 1

\* the except clauses of the two backtest endpoints: only a ValueError is
\* answered with 400, every other exception (an HTTPException raised inside
\* the try block included) with 500
handler_status(exc) == IF exc = "ValueError" THEN HTTP_400 ELSE HTTP_500

\* the detail the except clauses give the error: the exception's text, after
\* a fixed prefix when the status is 500
handler_detail(exc, text) ==
  IF exc = "ValueError" THEN text ELSE <<InternalServerError>> \o text

\* str() of an HTTPException
StrHTTPException(status, detail) == <<ToString(status), ": ", detail>>

Raise(exc, text) ==
  /\ pc' = "error"
  /\ http_status' = handler_status(exc)
  /\ http_detail' = handler_detail(exc, text)

\* ------------------------------------------------------------ actions
\* the date check that opens the try block of both backtest handlers; the
\* HTTPException it raises leaves through the handler's except clauses
check_dates ==
  /\ pc = "request"
  /\ IF start_date >= end_date
       THEN Raise("HTTPException", StrHTTPException(HTTP_400, StartDateMessage))
       ELSE pc' = "download" /\ UNCHANGED <<http_status, http_detail>>
  /\ UNCHANGED <<received, data, sma_period, rule, saved, sma, bar, cash,
                 position, order, trades, equity_curve, action,
                 condition_met, result>>

\* download_stock_data: an empty frame raises, and the exception leaves the
\* endpoint through its except clauses
download_stock_data ==
  /\ pc = "download"
  /\ IF Len(data) = 0
       THEN Raise("HTTPException", StrHTTPException(HTTP_400, ErrorDownloading))
       ELSE pc' = "run" /\ UNCHANGED <<http_status, http_detail>>
  /\ UNCHANGED <<received, data, sma_period, rule, saved, sma, bar, cash,
                 position, order, trades,
                 equity_curve, action, condition_met, result>>

\* run_backtest up to the first bar: feed, strategy, cash and commission are
\* set and cerebro.run() computes the indicator over the preloaded feed.
\* A period of 0 divides by zero, and a feed shorter than the period fails
\* on the indicator's first assignment (IndexError).
run_start ==
  /\ pc = "run"
  /\ cash' = Cash0
  /\ \/ /\ sma_period = 0
        /\ Raise("ZeroDivisionError", <<"division by zero">>)
        /\ UNCHANGED <<bar, sma>>
     \/ /\ sma_period > 0
        /\ Len(data) < sma_period
        /\ Raise("IndexError", <<"index out of range">>)
        /\ UNCHANGED <<bar, sma>>
     \/ /\ sma_period > 0
        /\ Len(data) >= sma_period
        /\ pc' = "broker"
        /\ bar' = 1
        /\ sma' = once(data, sma_period)
        /\ UNCHANGED <<http_status, http_detail>>
  /\ UNCHANGED <<received, data, sma_period, rule, saved, position, order,
                 trades,
                 equity_curve, action, condition_met, result>>

\* variant: every trade notification is recorded, closed or not
notify_trade_any(tr, trade) ==
  Append(tr, [entry_date |-> trade.dtopen, exit_date |-> trade.dtclose,
              pnl |-> trade.pnl, pnl_net |-> trade.pnlcomm])

\* SMAStrategy.notify_trade
notify_trade(tr, trade) ==
  IF trade.isclosed
    THEN Append(tr, [entry_date |-> trade.dtopen, exit_date |-> trade.dtclose,
                     pnl |-> trade.pnl, pnl_net |-> trade.pnlcomm])
    ELSE tr

\* a market buy of `stake` units is executed when the cash covers it, both
\* at the price it was created at and at the open it executes at
CanBuy(c, o, open) ==
  /\ c - stake * o.created_price * commission_den
       - getcommission(stake, o.created_price) >= 0
  /\ c - stake * open * commission_den - getcommission(stake, open) >= 0

\* the broker's part of a bar: the order created on the previous bar is
\* executed at this bar's open, and the strategy is notified of the trade
broker_next ==
  /\ pc = "broker"
  /\ LET b == data[bar]
         opened == [isclosed |-> FALSE, dtopen |-> b.date, dtclose |-> 0,
                    pnl |-> 0, pnlcomm |-> 0 - getcommission(stake, b.open)]
         gross == (b.open - position.price) * position.size * commission_den
         closed == [isclosed |-> TRUE, dtopen |-> position.date,
                    dtclose |-> b.date, pnl |-> gross,
                    pnlcomm |-> gross - getcommission(position.size, position.price)
                                      - getcommission(position.size, b.open)]
     IN
       \/ /\ order.kind = "none"
          /\ UNCHANGED <<cash, position, trades>>
       \/ /\ order.kind = "buy"
          /\ IF CanBuy(cash, order, b.open)
               THEN /\ cash' = cash - stake * b.open * commission_den
                                    - getcommission(stake, b.open)
                    /\ position' = [size |-> stake, price |-> b.open, date |-> b.date]
                    /\ trades' = notify_trade(trades, opened)
               ELSE UNCHANGED <<cash, position, trades>>
       \/ /\ order.kind = "sell"
          /\ cash' = cash + position.size * b.open * commission_den
                          - getcommission(position.size, b.open)
          /\ position' = Flat
          /\ trades' = notify_trade(trades, closed)
  /\ order' = NoOrder
  /\ pc' = "strategy"
  /\ UNCHANGED <<received, data, sma_period, rule, saved, sma, bar,
                 equity_curve, action,
                 condition_met, result, http_status, http_detail>>

\* the run moves to the next bar, or to the metrics after the last one
Advance ==
  IF bar = Len(data)
    THEN pc' = "metrics" /\ bar' = bar
    ELSE pc' = "broker" /\ bar' = bar + 1

\* variant: a bar without moving average records an equity point
prenext_records ==
  /\ pc = "strategy"
  /\ bar < sma_period
  /\ action' = "none"
  /\ equity_curve' = Append(equity_curve,
         [date |-> data[bar].date,
          portfolio_value |-> getvalue(cash, position, data[bar].close),
          price |-> data[bar].close,
          sma |-> <<0, 0>>])
  /\ Advance
  /\ UNCHANGED <<received, data, sma_period, rule, saved, sma, cash,
                 position, order, trades,
                 condition_met, result, http_status, http_detail>>

\* variant: a bar without moving average takes the rule's else_action
prenext_else ==
  /\ pc = "strategy"
  /\ bar < sma_period
  /\ action' = rule.else_action
  /\ order' = IF rule.else_action = "buy" /\ position.size = 0
                THEN [kind |-> "buy", created_price |-> data[bar].close]
              ELSE IF rule.else_action = "sell" /\ position.size # 0
                THEN [kind |-> "sell", created_price |-> data[bar].close]
              ELSE NoOrder
  /\ Advance
  /\ UNCHANGED <<received, data, sma_period, rule, saved, sma, cash,
                 position, trades,
                 equity_curve, condition_met, result, http_status, http_detail>>

\* bars on which the moving average has no value yet: next() is not called
prenext ==
  /\ pc = "strategy"
  /\ bar < sma_period
  /\ action' = "none"
  /\ Advance
  /\ UNCHANGED <<received, data, sma_period, rule, saved, sma, cash,
                 position, order, trades,
                 equity_curve, condition_met, result, http_status, http_detail>>

\* variant: buy() and sell() are called whatever the position
dispatch_unguarded(act, pos, price) ==
  IF act = "buy" THEN [kind |-> "buy", created_price |-> price]
  ELSE IF act = "sell" THEN [kind |-> "sell", created_price |-> price]
  ELSE NoOrder

\* the order a buy()/sell() of next() leaves with the broker
dispatch(act, pos, price) ==
  IF act = "buy" /\ pos.size = 0 THEN [kind |-> "buy", created_price |-> price]
  ELSE IF act = "sell" /\ pos.size # 0 THEN [kind |-> "sell", created_price |-> price]
  ELSE NoOrder

\* variant: the order of the bar is filled at once, at the bar's close,
\* before the equity point is recorded
next_acts_first ==
  /\ pc = "strategy"
  /\ bar >= sma_period
  /\ LET current_price == data[bar].close
         sma_value == sma[bar][1]
         met == evaluate_condition(rule.if_condition, current_price,
                                   sma_value, sma_period)
         act == IF met THEN rule.then_action ELSE rule.else_action
         o == dispatch(act, position, current_price)
         cash1 == IF o.kind = "buy"
                    THEN cash - stake * current_price * commission_den
                              - getcommission(stake, current_price)
                  ELSE IF o.kind = "sell"
                    THEN cash + position.size * current_price * commission_den
                              - getcommission(position.size, current_price)
                  ELSE cash
         pos1 == IF o.kind = "buy"
                   THEN [size |-> stake, price |-> current_price, date |-> data[bar].date]
                 ELSE IF o.kind = "sell" THEN Flat
                 ELSE position
     IN
       /\ cash' = cash1
       /\ position' = pos1
       /\ equity_curve' = Append(equity_curve,
              [date |-> data[bar].date,
               portfolio_value |-> getvalue(cash1, pos1, current_price),
               price |-> current_price,
               sma |-> <<sma_value, sma_period>>])
       /\ condition_met' = met
       /\ action' = act
       /\ order' = NoOrder
  /\ Advance
  /\ UNCHANGED <<received, data, sma_period, rule, saved, sma, trades,
                 result, http_status, http_detail>>

\* SMAStrategy.next
next ==
  /\ pc = "strategy"
  /\ bar >= sma_period
  /\ LET current_price == data[bar].close
         sma_value == sma[bar][1]
         met == evaluate_condition(rule.if_condition, current_price,
                                   sma_value, sma_period)
         act == IF met THEN rule.then_action ELSE rule.else_action
     IN
       /\ equity_curve' = Append(equity_curve,
              [date |-> data[bar].date,
               portfolio_value |-> getvalue(cash, position, current_price),
               price |-> current_price,
               sma |-> <<sma_value, sma_period>>])
       /\ condition_met' = met
       /\ action' = act
       /\ order' = dispatch(act, position, current_price)
  /\ Advance
  /\ UNCHANGED <<received, data, sma_period, rule, saved, sma, cash,
                 position, trades, result,
                 http_status, http_detail>>

\* equity_values: the portfolio values of the points of the curve
RECURSIVE Values(_)
Values(curve) ==
  IF curve = <<>> THEN <<>>
  ELSE <<curve[1].portfolio_value>> \o Values(Tail(curve))

\* r_k = r_m for the returns r_k = (v[k+1] - v[k]) / v[k], that is
\* v[k+1] * v[m] = v[m+1] * v[k].  With v = Cash0 + d the products are
\* compared as Cash0 * (dk1 + dm - dm1 - dk) = dm1 * dk - dk1 * dm, which
\* stays within the machine integers.
SameReturn(v, k, m) ==
  LET dk  == v[k] - Cash0
      dk1 == v[k + 1] - Cash0
      dm  == v[m] - Cash0
      dm1 == v[m + 1] - Cash0
      lhs == dk1 + dm - dm1 - dk
      rhs == dm1 * dk - dk1 * dm
  IN  rhs % Cash0 = 0 /\ rhs \div Cash0 = lhs

\* np.std(returns) = 0
StdIsZero(v) ==
  \A k, m \in 1..(Len(v) - 1) : SameReturn(v, k, m)

\* variant: the ratio is computed without the guard on a zero deviation
sharpe_of_unguarded(v) ==
  IF Len(v) < 2 THEN "nan"
  ELSE IF StdIsZero(v) THEN "nan"
  ELSE IF \A k \in 1..(Len(v) - 1) : v[k + 1] <= v[k] THEN "negative"
  ELSE IF \A k \in 1..(Len(v) - 1) : v[k + 1] >= v[k] THEN "positive"
  ELSE "ratio"

\* sharpe_ratio of run_backtest: not-a-number when there is no return at
\* all (mean and deviation of an empty array), 0 when the deviation of the
\* returns is 0, mean / std * sqrt(252) otherwise.  The ratio is kept by its
\* sign, which is the sign of the mean: "negative" when no return is a gain,
\* "positive" when none is a loss, "ratio" when gains and losses mix.
sharpe_of(v) ==
  IF Len(v) < 2 THEN "nan"
  ELSE IF StdIsZero(v) THEN "zero"
  ELSE IF \A k \in 1..(Len(v) - 1) : v[k + 1] <= v[k] THEN "negative"
  ELSE IF \A k \in 1..(Len(v) - 1) : v[k + 1] >= v[k] THEN "positive"
  ELSE "ratio"

\* variant: the open position is valued at the last open
final_value_at_open(c, pos, d) == c + pos.size * d[Len(d)].open * commission_den

\* the value run_backtest reads from the broker after the run
final_value_of(c, pos, d) == getvalue(c, pos, d[Len(d)].close)

\* variant: a trade that breaks even counts as won
win_rate_with_even(tr) ==
  LET winning_trades == Cardinality({k \in 1..Len(tr) : tr[k].pnl >= 0})
      total_trades == Len(tr)
  IN  IF total_trades > 0
        THEN RoundDiv(winning_trades * 100 * 100, total_trades)
        ELSE 0

\* win_rate of run_backtest, in hundredths of a percent
win_rate_of(tr) ==
  LET winning_trades == Cardinality({k \in 1..Len(tr) : tr[k].pnl > 0})
      total_trades == Len(tr)
  IN  IF total_trades > 0
        THEN RoundDiv(winning_trades * 100 * 100, total_trades)
        ELSE 0

\* the metrics of run_backtest; total_return and win_rate are in hundredths
\* of a percent, final_portfolio_value in hundredths of a currency unit
\* (the two decimals the results are rounded to)
metrics ==
  /\ pc = "metrics"
  /\ LET final_value == final_value_of(cash, position, data)
         total_trades == Len(trades)
         win_rate == win_rate_of(trades)
     IN result' = [kind |-> "result",
                   total_return |-> RoundDiv((final_value - Cash0) * 100 * 100, Cash0),
                   win_rate |-> win_rate,
                   number_of_trades |-> total_trades,
                   equity_curve |-> equity_curve,
                   final_portfolio_value |-> RoundDiv(final_value * 100, commission_den),
                   sharpe_ratio |-> sharpe_of(Values(equity_curve))]
  /\ pc' = IF endpoint = "/backtest" THEN "save" ELSE "done"
  /\ UNCHANGED <<received, data, sma_period, rule, saved, sma, bar, cash,
                 position, order, trades,
                 equity_curve, action, condition_met, http_status, http_detail>>

\* BacktestRepository.save_backtest_run, called by POST /backtest only
save_backtest_run ==
  /\ pc = "save"
  /\ saved' = saved + 1
  /\ pc' = "done"
  /\ UNCHANGED <<received, data, sma_period, rule, sma, bar, cash, position,
                 order, trades, equity_curve, action, condition_met, result,
                 http_status, http_detail>>

Next ==
  \/ check_dates
  \/ download_stock_data
  \/ run_start
  \/ broker_next
  \/ prenext
  \/ next
  \/ metrics
  \/ save_backtest_run

Spec == Init /\ [][Next]_vars

\* ------------------------------------------- requests with any input
\* Frames as a caller may hand them over: empty, or with dates in any order;
\* and periods from 0 up.
AnyWindows == 0..MaxW

DateOrders(n) ==
  { dt \in [1..n -> 1..n] : \A a, b \in 1..n : a # b => dt[a] # dt[b] }

AnySeriesOfLen(n) ==
  { [k \in 1..n |-> Bar(dt[k], f[k], f[k])] :
      dt \in DateOrders(n), f \in [1..n -> Prices] }

AnySeries == UNION { AnySeriesOfLen(n) : n \in 0..MaxBars }

InitInput ==
  /\ InitDates
  /\ data \in AnySeries
  /\ sma_period \in AnyWindows
  /\ rule \in Rules
  /\ InitRun

SpecInput == InitInput /\ [][Next]_vars

\* --------------------------------- the condition evaluated on its own
EvGT == <<"p","r","i","c","e"," ",">"," ","s","m","a">>
EvLT == <<"p","r","i","c","e"," ","<"," ","s","m","a">>
EvGE == <<"p","r","i","c","e"," ",">","="," ","s","m","a">>
EvLE == <<"p","r","i","c","e"," ","<","="," ","s","m","a">>
EvUpperLT == <<"P","R","I","C","E"," ","<"," ","S","M","A">>
EvMixedGE == <<"P","r","i","c","e"," ",">","="," ","S","m","a">>
EvPaddedLE == <<"i","f"," ","p","r","i","c","e"," ","<","="," ","s","m","a",":">>
EvUpperGT == <<"P","R","I","C","E"," ",">"," ","S","M","A">>
EvReversed == <<"s","m","a"," ",">"," ","p","r","i","c","e">>
EvNoSpaces == <<"p","r","i","c","e",">","s","m","a">>
EvEmpty == <<>>
EvNoSpacesLT == <<"p","r","i","c","e","<","s","m","a">>
EvBoth == <<"p","r","i","c","e"," ","<","="," ","s","m","a"," ","o","r"," ","p","r","i","c","e"," ",">"," ","s","m","a">>

EvalCases ==
  { [text |-> EvGT, ops |-> {">"}],
    [text |-> EvLT, ops |-> {"<"}],
    [text |-> EvGE, ops |-> {">="}],
    [text |-> EvLE, ops |-> {"<="}],
    [text |-> EvUpperGT, ops |-> {">"}],
    [text |-> EvUpperLT, ops |-> {"<"}],
    [text |-> EvMixedGE, ops |-> {">="}],
    [text |-> EvPaddedLE, ops |-> {"<="}],
    [text |-> EvBoth, ops |-> {"<=", ">"}],
    [text |-> EvReversed, ops |-> {}],
    [text |-> EvNoSpaces, ops |-> {}],
    [text |-> EvNoSpacesLT, ops |-> {}],
    [text |-> EvEmpty, ops |-> {}] }

EvalTexts == { c.text : c \in EvalCases }

InitEval ==
  /\ InitDates
  /\ data \in SeriesOfLen(MaxW)
  /\ sma_period \in Windows
  /\ rule \in [if_condition : EvalTexts, then_action : {"buy"}, else_action : {"hold"}]
  /\ InitRun

\* one call of _evaluate_condition on the last bar of the series
evaluate ==
  /\ pc = "request"
  /\ condition_met' = evaluate_condition(rule.if_condition, data[Len(data)].close,
                                         sma_sum(data, Len(data), sma_period),
                                         sma_period)
  /\ pc' = "evaluated"
  /\ UNCHANGED <<received, data, sma_period, rule, saved, sma, bar, cash,
                 position, order, trades,
                 equity_curve, action, result, http_status, http_detail>>

NextEval == evaluate

SpecEval == InitEval /\ [][NextEval]_vars

\* ------------------------------------------------------------ properties
\* C1 (as stated): the returned equity curve has exactly one point per input
\* bar, in bar order, the bars without moving average included.
C1_OnePointPerBar ==
  pc = "done" =>
    /\ Len(result.equity_curve) = Len(data)
    /\ \A k \in 1..Len(data) : result.equity_curve[k].date = data[k].date

\* C1 (amended): a run over N bars with window w returns a result only when
\* N >= w, and its equity curve then has exactly N - w + 1 points: one per
\* bar from the w-th bar on, in bar order; the first w - 1 bars get no point.
C1_OnePointPerBarWithAverage ==
  pc = "done" =>
    LET n == Len(data)
        w == sma_period
        curve == result.equity_curve
    IN  /\ n >= w
        /\ Len(curve) = n - w + 1
        /\ \A k \in 1..Len(curve) :
              /\ curve[k].date = data[k + w - 1].date
              /\ curve[k].price = data[k + w - 1].close

C1_Witness ==
  /\ pc = "done"
  /\ sma_period = 2
  /\ Len(data) = 6
  /\ Len(result.equity_curve) = 5

\* C2 (as stated): whenever a position is open the whole cash balance has
\* been converted into it: the broker holds a position and zero cash, or
\* only cash.
C2_AllCashInPosition ==
  position.size # 0 => cash = 0

\* C2 (amended): a buy that opens a position buys exactly one unit at the
\* open of the bar after the one that decided it, and takes the price plus
\* the 0.001 commission out of the cash; the rest of the cash stays.
C2_BuyOpensOneUnit ==
  [][ (position.size = 0 /\ position'.size # 0) =>
        /\ position'.size = 1
        /\ position'.price = data[bar].open
        /\ cash' = cash - data[bar].open * (commission_den + 1)
        /\ cash' >= 0 ]_vars

C2_Witness ==
  /\ position.size = 1
  /\ position.price = 2
  /\ cash = Cash0 - 2002

\* C3: at most one position (of one unit) is open at any time; an order is
\* with the broker only if next() asked for a buy while flat or for a sell
\* while holding; next() itself never changes cash, position or ledger, and
\* a hold, a buy while holding and a sell while flat leave no order, so the
\* broker's next step changes nothing either.
C3_SinglePositionDispatch ==
  /\ [](/\ position.size \in {0, 1}
        /\ order.kind = "buy" => position.size = 0
        /\ order.kind = "sell" => position.size = 1)
  /\ [][ /\ (pc = "strategy" /\ bar >= sma_period) =>
             /\ UNCHANGED <<cash, position, trades>>
             /\ order'.kind = "buy" <=> (action' = "buy" /\ position.size = 0)
             /\ order'.kind = "sell" <=> (action' = "sell" /\ position.size # 0)
         /\ (pc = "broker" /\ order.kind = "none") =>
             UNCHANGED <<cash, position, trades>> ]_vars

C3_Witness ==
  /\ pc = "broker"
  /\ action = "buy"
  /\ position.size = 1
  /\ order.kind = "none"

\* C4 (as stated): on a bar with fewer than w closes seen, the rule's
\* else_action is the action of the bar, so it is dispatched like on any
\* other bar (a buy when flat, a sell when holding).
C4_ElseActionWithoutAverage ==
  [][ (pc = "strategy" /\ bar < sma_period) =>
        order' = dispatch(rule.else_action, position, data[bar].close) ]_vars

\* C4 (amended): on a bar with fewer than w closes seen the rule is not
\* evaluated and no action is chosen, neither then_action nor else_action:
\* no order is dispatched and no equity point is recorded.
C4_NoActionWithoutAverage ==
  [][ (pc = "strategy" /\ bar < sma_period) =>
        /\ action' = "none"
        /\ order' = NoOrder
        /\ UNCHANGED <<cash, position, trades, equity_curve, condition_met>> ]_vars

C4_Witness ==
  /\ pc = "broker"
  /\ bar = 2
  /\ sma_period = 2
  /\ rule.else_action = "buy"
  /\ rule.if_condition = TxtGT
  /\ action = "none"
  /\ order = NoOrder

\* C5: a Trade is appended to the ledger exactly in the steps that close an
\* open position (never on a buy, a hold or a sell while flat), it carries
\* the dates of the position's entry and exit, and number_of_trades is the
\* length of the ledger.
C5_TradePerClosedPosition ==
  /\ [](pc = "done" => result.number_of_trades = Len(trades))
  /\ [][ IF position.size # 0 /\ position'.size = 0
           THEN /\ Len(trades') = Len(trades) + 1
                /\ SubSeq(trades', 1, Len(trades)) = trades
                /\ trades'[Len(trades')].entry_date = position.date
                /\ trades'[Len(trades')].exit_date = data[bar].date
           ELSE trades' = trades ]_vars

C5_Witness ==
  /\ pc = "done"
  /\ data = AlternatingSeries
  /\ rule.then_action = "buy"
  /\ rule.else_action = "sell"
  /\ result.number_of_trades = 2

LastClose == data[Len(data)].close

ScenarioRun ==
  /\ data = ScenarioSeries
  /\ sma_period = 2
  /\ rule = [if_condition |-> TxtGT, then_action |-> "buy", else_action |-> "hold"]

\* C6 (as stated): with a position still open after the last bar,
\* final_portfolio_value is the value of the open position at the last
\* close.
C6_FinalValueIsPositionValue ==
  (pc = "done" /\ position.size # 0) =>
    result.final_portfolio_value =
      RoundDiv(position.size * LastClose * commission_den * 100, commission_den)

\* C6 (amended): a position still open after the last bar stays open: no
\* Trade in the ledger belongs to it, number_of_trades counts the closed
\* trades only, and final_portfolio_value is the remaining cash plus the
\* open position valued at the last close.  In the scenario run (closes
\* 10, 11, 12, 9, 8, 13, w = 2, price > sma then buy else hold) the position
\* opens once, on the third bar, and number_of_trades is 0.
C6_OpenPositionMarkedToMarket ==
  /\ (pc = "done" /\ position.size # 0) =>
       /\ \A k \in 1..Len(trades) : trades[k].exit_date < position.date
       /\ result.number_of_trades = Len(trades)
       /\ result.final_portfolio_value =
            RoundDiv((cash + position.size * LastClose * commission_den) * 100,
                     commission_den)
  /\ (pc = "done" /\ ScenarioRun) =>
       /\ position.size = 1
       /\ position.date = 3
       /\ result.number_of_trades = 0

C6_Witness ==
  /\ pc = "done"
  /\ ScenarioRun
  /\ position.size = 1
  /\ result.number_of_trades = 0
  /\ result.final_portfolio_value = 1000099

\* C7: the equity point next() records for a bar is the portfolio value the
\* broker has when next() is entered (cash plus the position at the bar's
\* close); the order next() then decides changes neither cash nor position
\* in that step, and no later step changes a recorded point.
C7_SnapshotBeforeAction ==
  /\ [][ (pc = "strategy" /\ bar >= sma_period) =>
           /\ Len(equity_curve') = Len(equity_curve) + 1
           /\ equity_curve'[Len(equity_curve')].date = data[bar].date
           /\ equity_curve'[Len(equity_curve')].portfolio_value =
                cash + position.size * data[bar].close * commission_den
           /\ cash' = cash
           /\ position' = position ]_vars
  /\ [][ /\ Len(equity_curve') >= Len(equity_curve)
         /\ \A k \in 1..Len(equity_curve) : equity_curve'[k] = equity_curve[k] ]_vars
  /\ [](pc = "done" => result.equity_curve = equity_curve)

C7_Witness ==
  /\ pc = "done"
  /\ Len(equity_curve) >= 2
  /\ order.kind = "sell"
  /\ position.size = 1
  /\ equity_curve[Len(equity_curve)].portfolio_value = cash + LastClose * commission_den
  /\ equity_curve[1].portfolio_value = Cash0

Holds(op, a, b) ==
  CASE op = ">" -> a > b
    [] op = "<" -> a < b
    [] op = ">=" -> a >= b
    [] op = "<=" -> a <= b

\* C8: evaluating the condition always yields a truth value: the value of
\* the comparison whose canonical form occurs in the text, whatever the
\* case of its letters, and the value of price > sma for a text in which
\* none of the four occurs.
C8_ConditionEvaluation ==
  pc = "evaluated" =>
    LET c == CHOOSE e \in EvalCases : e.text = rule.if_condition
        ops == IF c.ops = {} THEN {">"} ELSE c.ops
        price == LastClose
        total == sma_sum(data, Len(data), sma_period)
    IN  /\ condition_met \in BOOLEAN
        /\ \E op \in ops : condition_met = Holds(op, price * sma_period, total)

C8_Witness ==
  /\ pc = "evaluated"
  /\ rule.if_condition = EvUpperLT
  /\ sma_period = 2
  /\ condition_met

Chronological(d) == \A k \in 1..(Len(d) - 1) : d[k].date < d[k + 1].date

InvalidInput ==
  \/ Len(data) = 0
  \/ ~Chronological(data)
  \/ sma_period <= 0

\* C9: for an empty series, a series out of date order or a window that is
\* not positive, no bar is processed and nothing is recorded or returned.
C9_InvalidInputRejected ==
  InvalidInput =>
    /\ bar = 0
    /\ equity_curve = <<>>
    /\ result = NoResult

ConstantPrice(d) ==
  \E q \in {d[1].close} : \A k \in 1..Len(d) : d[k].open = q /\ d[k].close = q

\* C10 (as stated; runs with at least two equity points): on a series whose
\* price never changes sharpe_ratio is 0, and total_return is 0 unless a
\* position was opened and closed, and then 0 minus the commission of the
\* closed trades.
C10_ConstantSeriesFlat ==
  (pc = "done" /\ ConstantPrice(data) /\ Len(result.equity_curve) >= 2) =>
    /\ result.sharpe_ratio = "zero"
    /\ result.total_return =
         RoundDiv(0 - 2 * Len(trades) * getcommission(stake, LastClose) * 100 * 100,
                  Cash0)

\* C10 (amended): on a series whose price (open and close) never changes no
\* position is ever closed; total_return is 0 when no position was opened
\* and otherwise 0 minus the entry commission (price * 0.001 as a percentage
\* of the initial cash, rounded to two decimals); sharpe_ratio is 0 when the
\* equity curve has at least two points and either exactly two or no
\* position was opened, negative when a position was opened and the curve
\* has three points or more, and not a number when the curve has fewer than
\* two points.
C10_ConstantSeriesEntryCommission ==
  (pc = "done" /\ ConstantPrice(data)) =>
    /\ result.number_of_trades = 0
    /\ result.total_return =
         RoundDiv(0 - position.size * LastClose * 100 * 100, Cash0)
    /\ result.sharpe_ratio =
         IF Len(result.equity_curve) < 2 THEN "nan"
         ELSE IF Len(result.equity_curve) = 2 \/ position.size = 0 THEN "zero"
         ELSE "negative"

C10_Witness ==
  /\ pc = "done"
  /\ data = ConstantSeries
  /\ position.size = 1
  /\ result.total_return = 0 - 1
  /\ result.sharpe_ratio = "negative"

\* C11: the sharpe_ratio of a result is always a defined number, never
\* not-a-number, and it is 0 whenever the equity curve has fewer than two
\* points (no returns at all) or the returns have no deviation.
C11_SharpeAlwaysDefined ==
  (result # NoResult) =>
    /\ result.sharpe_ratio # NaN
    /\ (Len(result.equity_curve) < 2 \/ StdIsZero(Values(result.equity_curve)))
          => result.sharpe_ratio = "zero"

\* ------------------------------------ the moving average on its own
\* the closes 1, 2, 3, 4, 5, averaged over three bars
ExampleCloses == <<1, 2, 3, 4, 5>>
ExampleSeries == FlatSeries(ExampleCloses)

IndicatorWindows == 1..(MaxW + 1)

InitIndicator ==
  /\ InitDates
  /\ data \in ValidSeries \cup {ExampleSeries}
  /\ sma_period \in IndicatorWindows
  /\ rule \in [if_condition : {TxtGT}, then_action : Actions,
               else_action : Actions]
  /\ InitRun

SpecIndicator == InitIndicator /\ [][Next]_vars

\* the closes of the w bars that end with bar i, oldest first
MostRecent(d, i, w) == [k \in 1..w |-> d[i - w + k].close]

RECURSIVE Total(_)
Total(q) == IF q = <<>> THEN 0 ELSE Head(q) + Total(Tail(q))

\* C12: on a series in date order and a window w >= 1 the moving average is
\* unavailable on the first w-1 bars, and from bar w on it is the total of
\* the w most recent closes, the current bar's included, over w; it is the
\* value the indicator has on the series cut after the current bar (no
\* later bar is used), and the value the strategy records on that bar.
\* Closes 1, 2, 3, 4, 5 and w = 3 give unavailable, unavailable, 2, 3, 4.
C12_MovingAverage ==
  (sma # <<>>) =>
    /\ Len(sma) = Len(data)
    /\ \A i \in 1..Len(data) :
         IF i < sma_period
           THEN sma[i] = NaN
           ELSE /\ sma[i] = <<Total(MostRecent(data, i, sma_period)), sma_period>>
                /\ sma[i] = once(SubSeq(data, 1, i), sma_period)[i]
    /\ \A k \in 1..Len(equity_curve) :
         equity_curve[k].sma =
           <<Total(MostRecent(data, k + sma_period - 1, sma_period)), sma_period>>
    /\ (data = ExampleSeries /\ sma_period = 3) =>
         sma = <<NaN, NaN, <<2 * 3, 3>>, <<3 * 3, 3>>, <<4 * 3, 3>>>>

C12_Witness ==
  /\ pc = "done"
  /\ data = ExampleSeries
  /\ sma_period = 3
  /\ sma[2] = NaN
  /\ sma[5] = <<12, 3>>
  /\ Len(equity_curve) = 3

\* a closed trade whose exit filled above its entry (gross pnl > 0)
Won(k) == data[trades[k].exit_date].open > data[trades[k].entry_date].open

\* C13: win_rate is 0 when the run closed no trade, and otherwise it is
\* 100 * (closed trades with gross pnl > 0) / (closed trades), to the two
\* decimals of the result; it always lies between 0 and 100.
C13_WinRate ==
  (result # NoResult) =>
    LET total == Len(trades)
        wins == Cardinality({k \in 1..total : Won(k)})
        gap == result.win_rate * total - 100 * 100 * wins
    IN  /\ total = 0 => result.win_rate = 0
        /\ total > 0 => (2 * gap <= total /\ 0 - 2 * gap <= total)
        /\ result.win_rate >= 0
        /\ result.win_rate <= 100 * 100

C13_Witness ==
  /\ pc = "done"
  /\ data = BreakEvenSeries
  /\ Len(trades) = 2
  /\ Won(1)
  /\ trades[2].pnl = 0
  /\ result.win_rate = 50 * 100

\* ------------------------------------------ requests with any dates
Days == 1..MaxDay

InitRequest ==
  /\ endpoint \in Endpoints
  /\ start_date \in Days
  /\ end_date \in Days
  /\ data \in ValidSeries \cup {<<>>}
  /\ sma_period \in Windows
  /\ rule \in [if_condition : {TxtGT}, then_action : Actions,
               else_action : Actions]
  /\ InitRun

SpecRequest == InitRequest /\ [][Next]_vars

\* C14: a backtest request on either route whose start_date is not
\* strictly before its end_date is answered with status 400 and the detail
\* "Start date must be before end date"; no data is downloaded, no backtest
\* is run and no BacktestRun is saved for it.
C14_DatesOutOfOrderAnswered400 ==
  (start_date >= end_date) =>
    /\ pc \in {"request", "error"}
    /\ bar = 0
    /\ sma = <<>>
    /\ result = NoResult
    /\ saved = 0
    /\ (pc = "error") =>
         (http_status = HTTP_400 /\ http_detail = <<StartDateMessage>>)

====
